---- MODULE Spec2Model ----
(***************************************************************************)
(* TSLA options credit-spread tracker.                                     *)
(*                                                                         *)
(* Three parts of the repository are modelled:                             *)
(*   - the recommendation engine findCreditSpreads, in its two versions    *)
(*     (the enhanced route and app/api/tsla-options/route.ts);             *)
(*   - the SimpleCache of lib/cache and the options GET handler on it;     *)
(*   - the WebSocketManager polling hub of lib/websocket.                  *)
(*                                                                         *)
(* Money and strikes are integers in cents, so 1.50 is 150 and the         *)
(* thresholds 0.15 / 0.25 are 15 cents and the fraction 25/100.  A         *)
(* quotient of two amounts is kept as a fraction [n, d] and compared by    *)
(* cross multiplication with the IEEE outcomes for a zero denominator.     *)
(* Time is in milliseconds, as Date.now().                                 *)
(***************************************************************************)
EXTENDS Integers, Sequences, FiniteSets, TLC

VARIABLES
    options,        \* engine input: the OptionContract[] passed in
    currentPrice,   \* engine input: the underlying price, cents
    targetDTE,      \* engine input: the targetDTE parameter (default 7)
    recs,           \* result of the enhanced findCreditSpreads
    recsBasic,      \* result of findCreditSpreads of app/api/tsla-options/route.ts
    ran,            \* which of the two versions have been run on the input
    now,            \* Date.now(), milliseconds
    cache,          \* SimpleCache.cache: key -> {data, timestamp, ttl}
    written,        \* per key, the last set call: its data, time and ttl (history)
    lastGet,        \* the get call just made and what it returned (history)
    replaced,       \* what the last set call found under its key (history)
    swept,          \* the cleanup calls made since the last other call or clock step (history)
    route,          \* which options route is deployed: "enhanced" or "basic"
    pc,             \* per request of the options GET handler: where it is suspended
    reqPrice,       \* per request: its local currentPrice
    lastResp,       \* the last response sent, with the request it answers
    quotes,         \* what the three price providers answer to one getCurrentPrice call
    priceOut,       \* what that call returned
    probIn,         \* the arguments of one calculateProbOfProfit call
    probOut,        \* what that call returned
    subscribers,    \* WebSocketManager.subscribers: topic -> set of callbacks
    ws,             \* WebSocketManager.ws: "null" or "open"
    timers,         \* per topic, the number of live setInterval timers polling it
    isConnecting,   \* WebSocketManager.isConnecting
    reconnectAttempts, \* WebSocketManager.reconnectAttempts
    reconnects,     \* the reconnect timeouts scheduled and not yet fired: delay -> how many
    inflight,       \* the fetches started by ticks and not yet resolved
    fetchSeq,       \* the number of fetches started so far
    hubEvent,       \* the last thing the hub did (history)
    overtaken,      \* the fetches in flight started before one whose result was delivered (history)
    orphans         \* the fetches in flight whose topic lost its last subscriber (history)

engineVars == <<options, currentPrice, targetDTE, recs, recsBasic, ran>>
priceVars == <<quotes, priceOut>>
probVars == <<probIn, probOut>>
\* the variables of the specifications of single functions
pureVars == <<priceVars, probVars>>
cacheVars == <<cache, written, lastGet, replaced, swept>>
getVars == <<route, pc, reqPrice, lastResp>>
hubVars == <<subscribers, ws, timers, isConnecting, reconnectAttempts, reconnects,
             inflight, fetchSeq, hubEvent, overtaken, orphans>>
vars == <<options, currentPrice, targetDTE, recs, recsBasic, ran, now,
          cache, written, lastGet, replaced, swept, route, pc, reqPrice, lastResp,
          quotes, priceOut, probIn, probOut,
          subscribers, ws, timers, isConnecting, reconnectAttempts, reconnects,
          inflight, fetchSeq, hubEvent, overtaken, orphans>>

(***************************************************************************)
(* Bounds of the model.                                                    *)
(***************************************************************************)
MaxContracts == 4
\* the clock advances at most this many times in the cache specification
MaxAdvances == 2
\* the clock advances at most this many times in the handler specification
MaxHandlerAdvances == 1
\* the hub starts at most this many fetches
MaxFetches == 2
\* connection attempts that fail, in all
MaxFailures == 6
\* the number of strikes of a listed chain of calls
LadderLen == 12

(***************************************************************************)
(* Arithmetic helpers.                                                     *)
(***************************************************************************)
Abs(x) == IF x < 0 THEN -x ELSE x

Min(a, b) == IF a < b THEN a ELSE b

\* Math.ceil(a / b) for b > 0
CeilDiv(a, b) == IF a >= 0 THEN (a + b - 1) \div b ELSE -((-a) \div b)

\* n / d > p / q in IEEE arithmetic (q > 0): a zero divisor gives +Infinity,
\* -Infinity or NaN, and only +Infinity compares greater.
RatioGT(n, d, p, q) ==
    IF d > 0 THEN n * q > p * d
    ELSE IF d < 0 THEN n * q < p * d
    ELSE n > 0

\* the same quotient as a value: a fraction
Ratio(n, d) == [n |-> n, d |-> d]

\* a.n / a.d > b.n / b.d for fractions with n > 0 and d >= 0
RatGT(a, b) ==
    IF a.d = 0 THEN b.d # 0
    ELSE IF b.d = 0 THEN FALSE
    ELSE a.n * b.d > b.n * a.d

(***************************************************************************)
(* JavaScript values: undefined, a finite number, NaN, the two infinities, *)
(* a string.                                                               *)
(***************************************************************************)
Undefined == [t |-> "undefined"]

\* null: what SimpleCache.get returns for a missing or expired key
Null == [isNull |-> TRUE]

\* no call yet (history variables)
None == [isNone |-> TRUE]

Num(v) == [t |-> "number", v |-> v]

NaN == [t |-> "NaN"]

PosInfinity == [t |-> "Infinity"]

NegInfinity == [t |-> "-Infinity"]

Str(x) == [t |-> "string", s |-> x]

\* the truthiness of a value, as an if tests it
Truthy(j) ==
    CASE j.t = "undefined" -> FALSE
      [] j.t = "NaN" -> FALSE
      [] j.t = "number" -> j.v # 0
      [] j.t = "string" -> j.s # ""
      [] OTHER -> TRUE

Sign(x) == IF x > 0 THEN 1 ELSE IF x < 0 THEN -1 ELSE 0

Max(a, b) == IF a > b THEN a ELSE b

\* the integer part of the square root of n, 0 <= n < 2048 * 2048, found
\* bit by bit from the highest
RECURSIVE SqrtBits(_, _, _)
SqrtBits(n, r, b) ==
    IF b = 0 THEN r
    ELSE IF (r + b) * (r + b) <= n THEN SqrtBits(n, r + b, b \div 2)
    ELSE SqrtBits(n, r, b \div 2)

ISqrt(n) == SqrtBits(n, 0, 1024)

(***************************************************************************)
(* Option contracts.  side is the side of the listed contract (the C or P  *)
(* of its contractSymbol); the OptionContract interface has no such field  *)
(* and findCreditSpreads never reads it.  Every contract drawn carries an  *)
(* implied volatility of 0.3.                                              *)
(***************************************************************************)
Contract(sd, k, b, a, e, itm) ==
    [side |-> sd, strike |-> k, bid |-> b, ask |-> a, expiration |-> e,
     inTheMoney |-> itm, impliedVolatility |-> Num(300)]

\* seconds in d days
Days(d) == d * 24 * 60 * 60

ContractPool ==
    { Contract("call", 26000, 150, 160, Days(7), FALSE),
      Contract("call", 26500,  30,  40, Days(7), FALSE),
      Contract("call", 26500,  40,  50, Days(7), FALSE),
      Contract("call", 26100,  45,  50, Days(7), FALSE),
      Contract("call", 26500,  30,  40, Days(11), FALSE),
      Contract("call", 26500,  30,  40, Days(4), FALSE),
      Contract("call", 25000, 700, 720, Days(7), TRUE),
      Contract("put",  24000, 150, 160, Days(7), FALSE),
      Contract("put",  23500,  30,  40, Days(7), FALSE) }

Prices == {25500}

TargetDTEs == {7, 9}

\* every array of at most MaxContracts contracts, in any order
InputChains == UNION { [1..n -> ContractPool] : n \in 0..MaxContracts }

\* a chain of calls as it is listed: one contract per strike, a dollar
\* apart, in ascending order, each of the six lowest quoted in one of two
\* ways (x = 0 or 10 cents higher); every pair of neighbours passes the
\* policy
LadderContract(i, x) ==
    Contract("call", 26000 + 100 * i, 1000 - 50 * i + x, 1010 - 50 * i + x,
             Days(7), FALSE)

LadderChains ==
    { [i \in 1..LadderLen |-> LadderContract(i, IF i <= 6 THEN xs[i] ELSE 0)] :
        xs \in [1..6 -> {0, 10}] }

(***************************************************************************)
(* getDaysToExpiration                                                     *)
(***************************************************************************)
getDaysToExpiration(expirationTimestamp, t) ==
    CeilDiv(expirationTimestamp * 1000 - t, 1000 * 60 * 60 * 24)

\* new Date(ms).toISOString().split('T')[0]: the UTC calendar day of ms, as
\* the number of whole days since the epoch
DateOf(ms) == ms \div (1000 * 60 * 60 * 24)

(***************************************************************************)
(* calculateProbOfProfit.  Prices are in cents, the implied volatility, the *)
(* logarithm, d and the cdf in thousandths, the probability in percent.    *)
(* Math.log and Math.exp are replaced by rational approximations that keep *)
(* their sign, their zero and their monotonicity; the special values of    *)
(* IEEE arithmetic (NaN, the infinities, division by zero) are exact.      *)
(***************************************************************************)
\* n / d < p / q in IEEE arithmetic (q > 0)
RatioLT(n, d, p, q) ==
    IF d > 0 THEN n * q < p * d
    ELSE IF d < 0 THEN n * q > p * d
    ELSE n < 0

\* Math.log(n / m): NaN below zero and for 0 / 0, -Infinity at zero,
\* +Infinity for a positive n over 0; otherwise 2 (x - 1) / (x + 1), the
\* first term of the series of the logarithm, never rounded to zero
LogRatio(n, m) ==
    IF m = 0 THEN (IF n > 0 THEN PosInfinity ELSE NaN)
    ELSE IF n = 0 THEN NegInfinity
    ELSE IF Sign(n) # Sign(m) THEN NaN
    ELSE IF n = m THEN Num(0)
    ELSE Num(Sign(Abs(n) - Abs(m))
                 * Max(1, (2000 * Abs(Abs(n) - Abs(m))) \div (Abs(n) + Abs(m))))

\* impliedVol * Math.sqrt(daysToExp / 365), impliedVol >= 0 or NaN
VolTime(impliedVol, daysToExp) ==
    IF impliedVol.t # "number" \/ daysToExp < 0 THEN NaN
    ELSE IF impliedVol.v = 0 \/ daysToExp = 0 THEN Num(0)
    ELSE Num(Max(1, (impliedVol.v * ISqrt((daysToExp * 1000000) \div 365)) \div 1000))

\* a / b for b = NaN or a number >= 0; finite quotients beyond 10 in size
\* are cut to 10, where the cdf below is flat
Quotient(a, b) ==
    IF a.t = "NaN" \/ b.t = "NaN" THEN NaN
    ELSE IF a.t # "number" THEN a
    ELSE IF b.v = 0
         THEN (IF a.v > 0 THEN PosInfinity ELSE IF a.v < 0 THEN NegInfinity ELSE NaN)
    ELSE Num(Sign(a.v) * Min(10000, (Abs(a.v) * 1000) \div b.v))

\* 0.5 * (1 + Math.sign(d) * Math.sqrt(1 - Math.exp(-2 * d * d / Math.PI))),
\* with exp(-y) taken as 1 / (1 + y + y^2 / 2)
Cdf(d) ==
    IF d.t = "NaN" THEN NaN
    ELSE IF d.t = "Infinity" THEN Num(1000)
    ELSE IF d.t = "-Infinity" THEN Num(0)
    ELSE LET y == Min(30000, (20 * d.v * d.v) \div 31416)
             e == (1000 * 2000000) \div (2000000 + 2000 * y + y * y)
         IN  Num((1000 + Sign(d.v) * ISqrt((1000 - e) * 1000)) \div 2)

\* (shortOption.impliedVolatility + longOption.impliedVolatility) / 2: an
\* undefined operand makes the sum NaN
AvgIV(shortIV, longIV) ==
    IF shortIV.t = "number" /\ longIV.t = "number"
    THEN Num((shortIV.v + longIV.v) \div 2)
    ELSE NaN

calculateProbOfProfit(price, shortStrike, creditReceived, type, impliedVol, daysToExp) ==
    LET iv == IF impliedVol.t = "undefined" THEN Num(300) ELSE impliedVol
        breakeven == IF type = "call" THEN shortStrike + creditReceived
                     ELSE shortStrike - creditReceived
        d == Quotient(LogRatio(price, breakeven), VolTime(iv, daysToExp))
        cdf == Cdf(d)
        decay == Max(0, (10 - daysToExp) * 2)
        bonus == IF \/ type = "call" /\ RatioLT(price, shortStrike, 95, 100)
                    \/ type = "put" /\ RatioGT(price, shortStrike, 105, 100)
                 THEN 10 ELSE 0
    IN  IF cdf.t = "NaN" THEN NaN
        ELSE Num(Min(Max((IF type = "call" THEN 1000 - cdf.v ELSE cdf.v) \div 10
                             + decay + bonus, 20), 85))

(***************************************************************************)
(* findCreditSpreads, enhanced version.                                    *)
(***************************************************************************)
\* options.filter(dte in [targetDTE - 2, targetDTE + 2])
TargetOptions(opts, tgt, t) ==
    LET InWindow(o) ==
            LET dte == getDaysToExpiration(o.expiration, t)
            IN  dte >= tgt - 2 /\ dte <= tgt + 2
    IN  SelectSeq(opts, InWindow)

CallSideFilter(o, price) == ~o.inTheMoney \/ o.strike > price

PutSideFilter(o, price) == ~o.inTheMoney \/ o.strike < price

CallOptions(opts, price, tgt, t) ==
    LET Keep(o) == CallSideFilter(o, price)
    IN  SelectSeq(TargetOptions(opts, tgt, t), Keep)

PutOptions(opts, price, tgt, t) ==
    LET Keep(o) == PutSideFilter(o, price)
    IN  SelectSeq(TargetOptions(opts, tgt, t), Keep)

\* the policy test of the enhanced version
PassesEnhanced(creditReceived, maxLoss, daysToExp) ==
    /\ creditReceived > 15
    /\ RatioGT(creditReceived, maxLoss, 25, 100)
    /\ daysToExp >= 5
    /\ daysToExp <= 10

\* the policy test of app/api/tsla-options/route.ts
PassesBasic(creditReceived, maxLoss, daysToExp) ==
    /\ creditReceived > 10
    /\ RatioGT(creditReceived, maxLoss, 20, 100)

\* a sign slip in the call side's maxLoss
CallMaxLossMutant(shortOption, longOption) ==
    (longOption.strike - shortOption.strike) + (shortOption.bid - longOption.ask)

CallMaxLoss(shortOption, longOption) ==
    (longOption.strike - shortOption.strike) - (shortOption.bid - longOption.ask)

PutMaxLoss(shortOption, longOption) ==
    (shortOption.strike - longOption.strike) - (shortOption.bid - longOption.ask)

\* calculateProbOfProfit of app/api/tsla-options/route.ts
calculateProbOfProfitBasic(price, shortStrike, creditReceived, type) ==
    IF type = "call"
    THEN (IF price < shortStrike + creditReceived THEN Num(65) ELSE Num(35))
    ELSE (IF price > shortStrike - creditReceived THEN Num(65) ELSE Num(35))

\* the probOfProfit of a pair in the given version of the function
ProbOfProfit(version, price, shortOption, longOption, type, t) ==
    IF version = "enhanced"
    THEN calculateProbOfProfit(price, shortOption.strike,
                               shortOption.bid - longOption.ask, type,
                               AvgIV(shortOption.impliedVolatility,
                                     longOption.impliedVolatility),
                               getDaysToExpiration(shortOption.expiration, t))
    ELSE calculateProbOfProfitBasic(price, shortOption.strike,
                                    shortOption.bid - longOption.ask, type)

\* the object pushed for a call pair; shortLeg and longLeg are not fields of
\* the code's object: they record which contracts the pair was built from
CallRec(shortOption, longOption, t, price, version) ==
    LET creditReceived == shortOption.bid - longOption.ask
        maxLoss == CallMaxLoss(shortOption, longOption)
        maxProfit == creditReceived
    IN  [type |-> "call",
         shortStrike |-> shortOption.strike,
         longStrike |-> longOption.strike,
         expiration |-> DateOf(shortOption.expiration * 1000),
         creditReceived |-> creditReceived,
         maxProfit |-> maxProfit,
         maxLoss |-> maxLoss,
         breakeven |-> shortOption.strike + creditReceived,
         probOfProfit |-> ProbOfProfit(version, price, shortOption, longOption, "call", t),
         riskRewardRatio |-> Ratio(maxProfit, maxLoss),
         daysToExpiration |-> getDaysToExpiration(shortOption.expiration, t),
         shortLeg |-> shortOption,
         longLeg |-> longOption]

PutRec(shortOption, longOption, t, price, version) ==
    LET creditReceived == shortOption.bid - longOption.ask
        maxLoss == PutMaxLoss(shortOption, longOption)
        maxProfit == creditReceived
    IN  [type |-> "put",
         shortStrike |-> shortOption.strike,
         longStrike |-> longOption.strike,
         expiration |-> DateOf(shortOption.expiration * 1000),
         creditReceived |-> creditReceived,
         maxProfit |-> maxProfit,
         maxLoss |-> maxLoss,
         breakeven |-> shortOption.strike - creditReceived,
         probOfProfit |-> ProbOfProfit(version, price, shortOption, longOption, "put", t),
         riskRewardRatio |-> Ratio(maxProfit, maxLoss),
         daysToExpiration |-> getDaysToExpiration(shortOption.expiration, t),
         shortLeg |-> shortOption,
         longLeg |-> longOption]

\* for (i = 0; i < L.length - 1; i++) over the pairs (L[i], L[i+1])
PairIndexes(L) == [i \in 1..(Len(L) - 1) |-> i]

\* the policy test of the given version of the function
Passes(version, creditReceived, maxLoss, daysToExp) ==
    IF version = "enhanced"
    THEN PassesEnhanced(creditReceived, maxLoss, daysToExp)
    ELSE PassesBasic(creditReceived, maxLoss, daysToExp)

\* the call loop of the given version
CallLoop(L, t, version, price) ==
    LET Keep(i) ==
            /\ L[i + 1].strike > L[i].strike
            /\ Passes(version, L[i].bid - L[i + 1].ask, CallMaxLoss(L[i], L[i + 1]),
                      getDaysToExpiration(L[i].expiration, t))
        kept == SelectSeq(PairIndexes(L), Keep)
    IN  [j \in 1..Len(kept) |-> CallRec(L[kept[j]], L[kept[j] + 1], t, price, version)]

\* the put loop
PutLoop(L, t, version, price) ==
    LET Keep(i) ==
            /\ L[i + 1].strike < L[i].strike
            /\ Passes(version, L[i].bid - L[i + 1].ask, PutMaxLoss(L[i], L[i + 1]),
                      getDaysToExpiration(L[i].expiration, t))
        kept == SelectSeq(PairIndexes(L), Keep)
    IN  [j \in 1..Len(kept) |-> PutRec(L[kept[j]], L[kept[j] + 1], t, price, version)]

\* a sort that is not stable: an element goes before the elements of equal
\* ratio already placed
RECURSIVE InsertByRatioMutant(_, _)
InsertByRatioMutant(sorted, r) ==
    IF sorted = <<>> THEN <<r>>
    ELSE IF ~RatGT(sorted[Len(sorted)].riskRewardRatio, r.riskRewardRatio)
         THEN Append(InsertByRatioMutant(SubSeq(sorted, 1, Len(sorted) - 1), r),
                     sorted[Len(sorted)])
         ELSE Append(sorted, r)

\* Array.prototype.sort((a, b) => b.riskRewardRatio - a.riskRewardRatio):
\* a stable sort, descending by ratio
RECURSIVE InsertByRatio(_, _)
InsertByRatio(sorted, r) ==
    IF sorted = <<>> THEN <<r>>
    ELSE IF RatGT(r.riskRewardRatio, sorted[Len(sorted)].riskRewardRatio)
         THEN Append(InsertByRatio(SubSeq(sorted, 1, Len(sorted) - 1), r),
                     sorted[Len(sorted)])
         ELSE Append(sorted, r)

RECURSIVE SortByRatio(_)
SortByRatio(s) ==
    IF s = <<>> THEN <<>>
    ELSE InsertByRatio(SortByRatio(SubSeq(s, 1, Len(s) - 1)), s[Len(s)])

\* .slice(0, 10)
TopTen(s) == SubSeq(s, 1, Min(10, Len(s)))

findCreditSpreads(opts, price, tgt, t) ==
    TopTen(SortByRatio(
        CallLoop(CallOptions(opts, price, tgt, t), t, "enhanced", price)
        \o PutLoop(PutOptions(opts, price, tgt, t), t, "enhanced", price)))

findCreditSpreadsBasic(opts, price, tgt, t) ==
    TopTen(SortByRatio(
        CallLoop(CallOptions(opts, price, tgt, t), t, "basic", price)
        \o PutLoop(PutOptions(opts, price, tgt, t), t, "basic", price)))

(***************************************************************************)
(* The engine as a state machine: an input is drawn, then either version   *)
(* of findCreditSpreads is applied to it.                                  *)
(***************************************************************************)
InitEngine ==
    /\ options \in InputChains \cup LadderChains
    /\ currentPrice \in Prices
    /\ targetDTE \in TargetDTEs
    /\ recs = <<>>
    /\ recsBasic = <<>>
    /\ ran = {}

RunEnhanced ==
    /\ "enhanced" \notin ran
    /\ recs' = findCreditSpreads(options, currentPrice, targetDTE, now)
    /\ ran' = ran \cup {"enhanced"}
    /\ UNCHANGED <<options, currentPrice, targetDTE, recsBasic, now>>
    /\ UNCHANGED <<cacheVars, getVars, hubVars, pureVars>>

RunBasic ==
    /\ "basic" \notin ran
    /\ recsBasic' = findCreditSpreadsBasic(options, currentPrice, targetDTE, now)
    /\ ran' = ran \cup {"basic"}
    /\ UNCHANGED <<options, currentPrice, targetDTE, recs, now>>
    /\ UNCHANGED <<cacheVars, getVars, hubVars, pureVars>>

(***************************************************************************)
(* calculateProbOfProfit on its own: arguments are drawn, the function is  *)
(* applied.  The implied volatility is the average of the two legs', as    *)
(* findCreditSpreads passes it.                                            *)
(***************************************************************************)
ProbInputs ==
    [currentPrice : {25500},
     shortStrike : {26000, 25400, 100, 50},
     creditReceived : {100, 110},
     type : {"call", "put"},
     shortIV : {Undefined, Num(0), Num(300)},
     longIV : {Undefined, Num(0), Num(300)},
     daysToExp : {0, 7, 12}]

InitProb ==
    /\ probIn \in ProbInputs
    /\ probOut = None

CallCalculateProb ==
    /\ probOut = None
    /\ probOut' = calculateProbOfProfit(probIn.currentPrice, probIn.shortStrike,
                                        probIn.creditReceived, probIn.type,
                                        AvgIV(probIn.shortIV, probIn.longIV),
                                        probIn.daysToExp)
    /\ UNCHANGED probIn
    /\ UNCHANGED <<engineVars, cacheVars, getVars, hubVars, priceVars, now>>

\* another call, with other arguments
NextProbInput ==
    /\ probOut # None
    /\ probIn' \in ProbInputs
    /\ probOut' = None
    /\ UNCHANGED <<engineVars, cacheVars, getVars, hubVars, priceVars, now>>

(***************************************************************************)
(* SimpleCache (lib/cache).  The Map is a function whose domain is the set *)
(* of keys present.                                                        *)
(***************************************************************************)
CacheKeys == {"tsla-options-data", "market-news-data"}

CacheValues == {[payload |-> 1], [payload |-> 2]}

\* ttlSeconds arguments tried
TtlSeconds == {0, 1}

\* clock steps, milliseconds: just under, exactly and just over one second
ClockSteps == {999, 1000, 1001}

\* an off-by-one in the expiry test: an entry exactly ttl old counts as expired
ExpiredMutant(item, t) == t - item.timestamp >= item.ttl

\* item expired at time t: Date.now() - item.timestamp > item.ttl
Expired(item, t) == t - item.timestamp > item.ttl

\* a set that leaves an entry that is present alone
SetEntryMutant(c, key, data, ttlSeconds, t) ==
    [k \in DOMAIN c \cup {key} |->
        IF k = key /\ key \notin DOMAIN c
        THEN [data |-> data, timestamp |-> t, ttl |-> ttlSeconds * 1000]
        ELSE c[k]]

\* the Map after set(key, data, ttlSeconds) at time t
SetEntry(c, key, data, ttlSeconds, t) ==
    [k \in DOMAIN c \cup {key} |->
        IF k = key
        THEN [data |-> data, timestamp |-> t, ttl |-> ttlSeconds * 1000]
        ELSE c[k]]

\* what set(key, data, ttlSeconds) at time t finds under the key (history):
\* nothing, an expired entry, or a live entry that would have expired later
\* or not later than the new one
Replaced(c, key, ttlSeconds, t) ==
    [key |-> key,
     kind |-> IF key \notin DOMAIN c THEN "nothing"
              ELSE IF Expired(c[key], t) THEN "expired"
              ELSE IF c[key].timestamp + c[key].ttl > t + ttlSeconds * 1000
                   THEN "longer"
                   ELSE "shorter"]

\* the Map without key
DeleteKey(c, key) == [k \in DOMAIN c \ {key} |-> c[k]]

\* get without its own expiry test, relying on cleanup
GetResultMutant(c, key, t) ==
    IF key \notin DOMAIN c THEN Null ELSE c[key].data

\* what get(key) returns at time t
GetResult(c, key, t) ==
    IF key \notin DOMAIN c THEN Null
    ELSE IF Expired(c[key], t) THEN Null
    ELSE c[key].data

\* a get that sweeps every expired entry when it meets one
GetEffectMutant(c, key, t) ==
    IF key \in DOMAIN c /\ Expired(c[key], t)
    THEN [k \in { x \in DOMAIN c : ~Expired(c[x], t) } |-> c[k]]
    ELSE c

\* the Map after get(key) at time t
GetEffect(c, key, t) ==
    IF key \in DOMAIN c /\ Expired(c[key], t) THEN DeleteKey(c, key) ELSE c

\* a cleanup that deletes one expired entry per call
CleanupEffectMutant(c, t) ==
    IF \E x \in DOMAIN c : Expired(c[x], t)
    THEN DeleteKey(c, CHOOSE x \in DOMAIN c : Expired(c[x], t))
    ELSE c

\* the Map after cleanup() at time t
CleanupEffect(c, t) ==
    [k \in { x \in DOMAIN c : ~Expired(c[x], t) } |-> c[k]]

EmptyMap == [k \in {} |-> None]

\* the cleanup calls made in succession (history): how many, counted up to
\* two, and whether the first of them deleted an entry
Swept(s, before, after) ==
    IF s = None
    THEN [calls |-> 1, removed |-> DOMAIN after # DOMAIN before]
    ELSE [calls |-> 2, removed |-> s.removed]

InitCache ==
    /\ cache = EmptyMap
    /\ written = [k \in CacheKeys |-> None]
    /\ lastGet = None
    /\ replaced = None
    /\ swept = None

CacheSet(key, data, ttlSeconds) ==
    /\ cache' = SetEntry(cache, key, data, ttlSeconds, now)
    /\ written' = [written EXCEPT
                      ![key] = [data |-> data, at |-> now, ttlSeconds |-> ttlSeconds]]
    /\ replaced' = Replaced(cache, key, ttlSeconds, now)
    /\ lastGet' = None
    /\ swept' = None
    /\ UNCHANGED now
    /\ UNCHANGED <<engineVars, pureVars, getVars, hubVars>>

CacheGet(key) ==
    /\ cache' = GetEffect(cache, key, now)
    /\ lastGet' = [key |-> key, result |-> GetResult(cache, key, now), at |-> now,
                   before |-> cache]
    /\ swept' = None
    /\ UNCHANGED <<written, replaced, now>>
    /\ UNCHANGED <<engineVars, pureVars, getVars, hubVars>>

CacheCleanup ==
    /\ cache' = CleanupEffect(cache, now)
    /\ swept' = Swept(swept, cache, CleanupEffect(cache, now))
    /\ lastGet' = None
    /\ UNCHANGED <<written, replaced, now>>
    /\ UNCHANGED <<engineVars, pureVars, getVars, hubVars>>

CacheClear ==
    /\ cache' = EmptyMap
    /\ written' = [k \in CacheKeys |-> None]
    /\ lastGet' = None
    /\ replaced' = None
    /\ swept' = None
    /\ UNCHANGED now
    /\ UNCHANGED <<engineVars, pureVars, getVars, hubVars>>

\* time passes
AdvanceClock(d) ==
    /\ now + d <= MaxAdvances * 1001
    /\ now' = now + d
    /\ swept' = None
    /\ UNCHANGED <<cache, written, lastGet, replaced>>
    /\ UNCHANGED <<engineVars, pureVars, getVars, hubVars>>

NextCache ==
    \/ \E key \in CacheKeys, data \in CacheValues, ttlSeconds \in TtlSeconds :
           CacheSet(key, data, ttlSeconds)
    \/ \E key \in CacheKeys : CacheGet(key)
    \/ CacheCleanup
    \/ CacheClear
    \/ \E d \in ClockSteps : AdvanceClock(d)

(***************************************************************************)
(* The options GET handler, in both routes, on the shared apiCache.        *)
(* A request is suspended at its awaits: the price lookup, then the chain  *)
(* lookup.  Everything between two awaits runs to completion.              *)
(***************************************************************************)
Requests == {"r1", "r2"}

OptionsKey == "tsla-options-data"

\* 250, the price used when no provider answers
FallbackPrice == 25000

\* a price a provider reports
QuotedPrice == 25500

\* what one price provider does: the fetch or json() throws, the price field
\* is missing (falsy), or a price is reported
ProviderOutcomes == {"throw", "missing", "quoted"}

\* a provider that needs an API key is not even tried while the key is 'demo'
KeyedOutcomes == ProviderOutcomes \cup {"nokey"}

\* parseFloat on the strings a provider sends
parseFloat(x) ==
    CASE x = "255.00" -> Num(25500)
      [] x = "254.00" -> Num(25400)
      [] x = "0.0000" -> Num(0)
      [] x = "-5.00" -> Num(-500)
      [] OTHER -> NaN

\* data.chart?.result?.[0]?.meta?.regularMarketPrice of Yahoo's answer
YahooField(yahoo) ==
    CASE yahoo = "quoted" -> Num(QuotedPrice)
      [] yahoo = "zero" -> Num(0)
      [] yahoo = "negative" -> Num(-500)
      [] yahoo = "text" -> Str("N/A")
      [] OTHER -> Undefined

\* data['Global Quote']?.['05. price'] of Alpha Vantage's answer: a string
AvField(av) ==
    CASE av = "quoted" -> Str("255.00")
      [] av = "other" -> Str("254.00")
      [] av = "zero" -> Str("0.0000")
      [] av = "negative" -> Str("-5.00")
      [] av = "text" -> Str("N/A")
      [] av = "empty" -> Str("")
      [] OTHER -> Undefined

\* data?.[0]?.price of FMP's answer
FmpField(fmp) ==
    CASE fmp = "quoted" -> Num(QuotedPrice)
      [] fmp = "other" -> Num(25300)
      [] fmp = "zero" -> Num(0)
      [] fmp = "negative" -> Num(-300)
      [] OTHER -> Undefined

\* the provider's try block is entered and its fetch and json() return
Answers(outcome) == outcome \notin {"throw", "nokey"}

\* getCurrentPrice: Yahoo, then Alpha Vantage and FMP when their keys are
\* configured; each provider's failure is caught and a falsy price field
\* falls through; 250 when none answers.  The result is a JavaScript value.
getCurrentPrice(yahoo, av, fmp) ==
    IF Answers(yahoo) /\ Truthy(YahooField(yahoo)) THEN YahooField(yahoo)
    ELSE IF Answers(av) /\ Truthy(AvField(av)) THEN parseFloat(AvField(av).s)
    ELSE IF Answers(fmp) /\ Truthy(FmpField(fmp)) THEN FmpField(fmp)
    ELSE Num(FallbackPrice)

\* every answer of each provider that is tried
YahooOutcomes == ProviderOutcomes \cup {"zero", "negative", "text"}

AvOutcomes == KeyedOutcomes \cup {"other", "zero", "negative", "text", "empty"}

FmpOutcomes == KeyedOutcomes \cup {"other", "zero", "negative"}

NoQuotes == [yahoo |-> "throw", av |-> "nokey", fmp |-> "nokey"]

InitPrice ==
    /\ quotes \in [yahoo : YahooOutcomes, av : AvOutcomes, fmp : FmpOutcomes]
    /\ priceOut = None

\* one call of getCurrentPrice
CallGetCurrentPrice ==
    /\ priceOut = None
    /\ priceOut' = getCurrentPrice(quotes.yahoo, quotes.av, quotes.fmp)
    /\ UNCHANGED quotes
    /\ UNCHANGED <<engineVars, cacheVars, getVars, hubVars, probVars, now>>

\* another call, with other answers
NextQuotes ==
    /\ priceOut # None
    /\ quotes' \in [yahoo : YahooOutcomes, av : AvOutcomes, fmp : FmpOutcomes]
    /\ priceOut' = None
    /\ UNCHANGED <<engineVars, cacheVars, getVars, hubVars, probVars, now>>

\* the basic route's inline price lookup: [threw, price]
BasicPrice(av) ==
    IF av = "throw" THEN [threw |-> TRUE, price |-> FallbackPrice]
    ELSE IF av = "quoted" THEN [threw |-> FALSE, price |-> QuotedPrice]
    ELSE [threw |-> FALSE, price |-> FallbackPrice]

\* what the chain lookup does: fetch rejects, json() throws, the body has no
\* optionChain, no optionChain.result, an empty result array, a result whose
\* options array is missing or empty, or a chain
ChainFailures ==
    {"throw", "malformed", "noOptionChain", "noResult", "emptyResult", "noOptions"}

ChainBodies ==
    { [calls |-> << Contract("call", 26000, 150, 160, Days(7), FALSE),
                    Contract("call", 26100,  45,  50, Days(7), FALSE) >>,
       puts  |-> << Contract("put",  23500,  30,  40, Days(7), FALSE),
                    Contract("put",  24000, 150, 160, Days(7), FALSE) >>],
      [calls |-> <<>>, puts |-> <<>>] }

\* the mock recommendations of the catch block
MockRecommendations(t) ==
    << [type |-> "call", shortStrike |-> 26000, longStrike |-> 26500,
        expiration |-> DateOf(t + 7 * 24 * 60 * 60 * 1000),
        creditReceived |-> 125, maxProfit |-> 125, maxLoss |-> 375,
        breakeven |-> 26125, probOfProfit |-> Num(68),
        riskRewardRatio |-> Ratio(33, 100), daysToExpiration |-> 7],
       [type |-> "put", shortStrike |-> 24000, longStrike |-> 23500,
        expiration |-> DateOf(t + 7 * 24 * 60 * 60 * 1000),
        creditReceived |-> 110, maxProfit |-> 110, maxLoss |-> 390,
        breakeven |-> 23890, probOfProfit |-> Num(72),
        riskRewardRatio |-> Ratio(28, 100), daysToExpiration |-> 7] >>

FallbackPayload(t) ==
    [currentPrice |-> 25075, lastUpdate |-> t,
     recommendations |-> MockRecommendations(t)]

\* a catch block that reports the failure, as the news route's does
OnErrorMutant(t) ==
    [success |-> FALSE, status |-> 500, cached |-> FALSE, data |-> Null]

\* the catch block's response
OnError(t) ==
    [success |-> TRUE, status |-> 200, cached |-> FALSE, data |-> FallbackPayload(t)]

\* the response on a cache hit
CachedResponse(data) ==
    [success |-> TRUE, status |-> 200, cached |-> TRUE, data |-> data]

\* the response after a computation
FreshResponse(data) ==
    [success |-> TRUE, status |-> 200, cached |-> FALSE, data |-> data]

\* responseData of the try block
ResponseData(body, price, t) ==
    [currentPrice |-> price, lastUpdate |-> t,
     recommendations |->
        IF route = "enhanced"
        THEN findCreditSpreads(body.calls \o body.puts, price, 7, t)
        ELSE findCreditSpreadsBasic(body.calls \o body.puts, price, 7, t)]

\* a response with the request it answers and what its chain lookup did
\* ("none" when no chain lookup was made)
Answer(r, response, chain) ==
    [req |-> r, chain |-> chain, at |-> now, response |-> response]

InitGet ==
    /\ route \in {"enhanced", "basic"}
    /\ pc = [r \in Requests |-> "idle"]
    /\ reqPrice = [r \in Requests |-> FallbackPrice]
    /\ lastResp = None

\* a handler that never serves from the cache
CacheHitMutant(cachedData) == FALSE

\* if (cachedData): the payload is an object, null is falsy
CacheHit(cachedData) == cachedData # Null

\* GET up to its first await: the cache lookup
GetStart(r) ==
    /\ pc[r] = "idle"
    /\ cache' = GetEffect(cache, OptionsKey, now)
    /\ lastGet' = [key |-> OptionsKey, result |-> GetResult(cache, OptionsKey, now),
                   at |-> now, before |-> cache]
    /\ IF CacheHit(GetResult(cache, OptionsKey, now))
       THEN /\ lastResp' = Answer(r, CachedResponse(GetResult(cache, OptionsKey, now)),
                                  "none")
            /\ pc' = pc
       ELSE /\ pc' = [pc EXCEPT ![r] = "price"]
            /\ lastResp' = lastResp
    /\ swept' = None
    /\ UNCHANGED <<written, replaced, now, route, reqPrice>>
    /\ UNCHANGED <<engineVars, pureVars, hubVars>>

\* the enhanced route's await getCurrentPrice() resolves
PriceDoneEnhanced(r, yahoo, av, fmp) ==
    /\ pc[r] = "price"
    /\ route = "enhanced"
    /\ reqPrice' = [reqPrice EXCEPT
                       ![r] = getCurrentPrice(yahoo, av, fmp).v]
    /\ pc' = [pc EXCEPT ![r] = "chain"]
    /\ UNCHANGED <<cacheVars, now, route, lastResp>>
    /\ UNCHANGED <<engineVars, pureVars, hubVars>>

\* the basic route's price fetch resolves or throws into the catch block
PriceDoneBasic(r, av) ==
    /\ pc[r] = "price"
    /\ route = "basic"
    /\ IF BasicPrice(av).threw
       THEN /\ lastResp' = Answer(r, OnError(now), "none")
            /\ pc' = [pc EXCEPT ![r] = "idle"]
            /\ reqPrice' = reqPrice
       ELSE /\ reqPrice' = [reqPrice EXCEPT ![r] = BasicPrice(av).price]
            /\ pc' = [pc EXCEPT ![r] = "chain"]
            /\ lastResp' = lastResp
    /\ UNCHANGED <<cacheVars, now, route>>
    /\ UNCHANGED <<engineVars, pureVars, hubVars>>

\* a catch block that also stores its fallback payload in the cache
ChainFailsMutant(r, failure) ==
    /\ pc[r] = "chain"
    /\ cache' = SetEntry(cache, OptionsKey, FallbackPayload(now), 30, now)
    /\ written' = [written EXCEPT
                      ![OptionsKey] = [data |-> FallbackPayload(now),
                                       at |-> now, ttlSeconds |-> 30]]
    /\ replaced' = Replaced(cache, OptionsKey, 30, now)
    /\ lastGet' = None
    /\ swept' = None
    /\ lastResp' = Answer(r, OnError(now), failure)
    /\ pc' = [pc EXCEPT ![r] = "idle"]
    /\ UNCHANGED <<now, route, reqPrice>>
    /\ UNCHANGED <<engineVars, pureVars, hubVars>>

\* the chain lookup fails: the throw lands in the catch block
ChainFails(r, failure) ==
    /\ pc[r] = "chain"
    /\ lastResp' = Answer(r, OnError(now), failure)
    /\ pc' = [pc EXCEPT ![r] = "idle"]
    /\ UNCHANGED <<cacheVars, now, route, reqPrice>>
    /\ UNCHANGED <<engineVars, pureVars, hubVars>>

\* the chain lookup answers with a chain: compute, cache for 30 s, respond
ChainArrives(r, body) ==
    /\ pc[r] = "chain"
    /\ cache' = SetEntry(cache, OptionsKey, ResponseData(body, reqPrice[r], now), 30, now)
    /\ written' = [written EXCEPT
                      ![OptionsKey] = [data |-> ResponseData(body, reqPrice[r], now),
                                       at |-> now, ttlSeconds |-> 30]]
    /\ replaced' = Replaced(cache, OptionsKey, 30, now)
    /\ lastGet' = None
    /\ swept' = None
    /\ lastResp' = Answer(r, FreshResponse(ResponseData(body, reqPrice[r], now)), "chain")
    /\ pc' = [pc EXCEPT ![r] = "idle"]
    /\ UNCHANGED <<now, route, reqPrice>>
    /\ UNCHANGED <<engineVars, pureVars, hubVars>>

\* clock steps for the handler, milliseconds: the ttl of 30 s, and just over
HandlerClockSteps == {30000, 30001}

AdvanceHandlerClock(d) ==
    /\ now + d <= MaxHandlerAdvances * 30001
    /\ now' = now + d
    /\ UNCHANGED <<cacheVars, getVars>>
    /\ UNCHANGED <<engineVars, pureVars, hubVars>>

NextGet ==
    \/ \E r \in Requests : GetStart(r)
    \/ \E r \in Requests, yahoo \in ProviderOutcomes, av, fmp \in KeyedOutcomes :
           PriceDoneEnhanced(r, yahoo, av, fmp)
    \/ \E r \in Requests, av \in ProviderOutcomes : PriceDoneBasic(r, av)
    \/ \E r \in Requests, failure \in ChainFailures : ChainFails(r, failure)
    \/ \E r \in Requests, body \in ChainBodies : ChainArrives(r, body)
    \/ \E d \in HandlerClockSteps : AdvanceHandlerClock(d)

(***************************************************************************)
(* WebSocketManager (lib/websocket): the polling hub.                      *)
(* connect() starts three setInterval timers, one per topic, and keeps     *)
(* them in the ws object, whose close() clears the three.  A timer's tick  *)
(* is an async function: it is suspended at its fetch, and resumes, at any *)
(* later time, to broadcast.  Interval lengths are not modelled: a tick of *)
(* a live timer may come at any time, before or after earlier fetches of   *)
(* the topic have resolved.                                                *)
(***************************************************************************)
Topics == {"price", "options", "news"}

Callbacks == {"cb1", "cb2"}

NoTopic == "-"

\* getTotalSubscribers over a subscriber map
TotalSubscribers(subs) ==
    Cardinality(subs["price"]) + Cardinality(subs["options"])
        + Cardinality(subs["news"])

\* the last thing the hub did: calls is the list of callback invocations of
\* a broadcast, connect the outcome of the connect() call made, if any
HubEvent(kind, topic, started, to) ==
    [kind |-> kind, topic |-> topic, started |-> started, to |-> to,
     calls |-> <<>>, connect |-> "none"]

maxReconnectAttempts == 5

reconnectDelay == 1000

RECURSIVE Pow2(_)
Pow2(k) == IF k = 0 THEN 1 ELSE 2 * Pow2(k - 1)

\* the delay of the reconnect scheduled when reconnectAttempts has become k
Delay(k) == reconnectDelay * Pow2(k - 1)

Delays == { Delay(k) : k \in 1..maxReconnectAttempts }

InitHub ==
    /\ subscribers = [t \in Topics |-> {}]
    /\ ws = "null"
    /\ timers = [t \in Topics |-> 0]
    /\ isConnecting = FALSE
    /\ reconnectAttempts = 0
    /\ reconnects = [d \in Delays |-> 0]
    /\ inflight = {}
    /\ fetchSeq = 0
    /\ hubEvent = HubEvent("init", NoTopic, FALSE, {})
    /\ overtaken = {}
    /\ orphans = {}

\* connect() returns at once: a connection is being made or is open
ConnectSkips == isConnecting \/ ws = "open"

\* the fields a connect() call may write
Connection(outcome, tm, w, attempts, pending) ==
    [outcome |-> outcome, timers |-> tm, ws |-> w, isConnecting |-> FALSE,
     reconnectAttempts |-> attempts, reconnects |-> pending]

\* handleConnectionError(), called with the timers tm running and the
\* timeouts pending scheduled: below the maximum it counts the attempt and
\* schedules one connect() after reconnectDelay * 2^(reconnectAttempts - 1)
handleConnectionError(tm, pending) ==
    IF reconnectAttempts < maxReconnectAttempts
    THEN Connection("failed", tm, ws, reconnectAttempts + 1,
                    [pending EXCEPT ![Delay(reconnectAttempts + 1)] = @ + 1])
    ELSE Connection("failed", tm, ws, reconnectAttempts, pending)

\* connect(), called with the timeouts pending scheduled.  simulateWebSocket()
\* runs synchronously inside it: it starts the three timers, then either
\* stores them in ws and resets isConnecting and reconnectAttempts, or throws
\* where it builds the ws object (WebSocket.OPEN, in a runtime without a
\* WebSocket global), when the three timers are running and nothing holds
\* them
connect(throws, pending) ==
    IF ConnectSkips
    THEN [outcome |-> "skipped", timers |-> timers, ws |-> ws,
          isConnecting |-> isConnecting, reconnectAttempts |-> reconnectAttempts,
          reconnects |-> pending]
    ELSE IF throws
         THEN handleConnectionError([x \in Topics |-> timers[x] + 1], pending)
         ELSE Connection("opened", [x \in Topics |-> timers[x] + 1], "open", 0, pending)

\* disconnect(): close ws, which clears the three timers it holds; reset
\* isConnecting and reconnectAttempts
disconnect ==
    [outcome |-> "none",
     timers |-> IF ws = "open" THEN [x \in Topics |-> timers[x] - 1] ELSE timers,
     ws |-> "null", isConnecting |-> FALSE, reconnectAttempts |-> 0,
     reconnects |-> reconnects]

\* no connect() and no disconnect() is called
NoConnection ==
    [outcome |-> "none", timers |-> timers, ws |-> ws, isConnecting |-> isConnecting,
     reconnectAttempts |-> reconnectAttempts, reconnects |-> reconnects]

\* the connection's fields become those of c
ConnectionBecomes(c) ==
    /\ timers' = c.timers
    /\ ws' = c.ws
    /\ isConnecting' = c.isConnecting
    /\ reconnectAttempts' = c.reconnectAttempts
    /\ reconnects' = c.reconnects

\* the number of connection attempts that have failed is below the bound
\* (each has left its three timers running)
MayFail == timers["price"] - (IF ws = "open" THEN 1 ELSE 0) < MaxFailures

getConnectionStatus ==
    IF isConnecting THEN "connecting"
    ELSE IF ws = "open" THEN "connected"
    ELSE IF reconnectAttempts >= maxReconnectAttempts THEN "error"
    ELSE "disconnected"

\* a tick that fetches whether or not anyone listens
ShouldFetchMutant(t) == TRUE

\* the tick's test before it fetches: the topic has a subscriber
ShouldFetch(t) == Cardinality(subscribers[t]) > 0

\* subscribe(type, callback): add the callback; connect() when it is the
\* only subscriber of the hub.  throws: simulateWebSocket() throws
Subscribe(t, cb, throws) ==
    LET subs == [subscribers EXCEPT ![t] = @ \cup {cb}]
        c == IF TotalSubscribers(subs) = 1 THEN connect(throws, reconnects)
             ELSE NoConnection
    IN  /\ throws => MayFail
        /\ subscribers' = subs
        /\ ConnectionBecomes(c)
        /\ hubEvent' = [HubEvent("subscribe", t, FALSE, {cb}) EXCEPT
                           !.connect = c.outcome]
        /\ UNCHANGED <<inflight, fetchSeq, overtaken, orphans>>
        /\ UNCHANGED <<engineVars, pureVars, cacheVars, getVars, now>>

\* the closure subscribe returned, called while its callback is subscribed:
\* delete the callback; disconnect() when the hub has no subscriber left
Unsubscribe(t, cb) ==
    LET subs == [subscribers EXCEPT ![t] = @ \ {cb}]
        c == IF TotalSubscribers(subs) = 0 THEN disconnect ELSE NoConnection
    IN  /\ cb \in subscribers[t]
        /\ subscribers' = subs
        /\ ConnectionBecomes(c)
        /\ hubEvent' = HubEvent("unsubscribe", t, FALSE, {cb})
        /\ orphans' = IF subs[t] = {}
                      THEN orphans \cup { f.id : f \in { g \in inflight : g.topic = t } }
                      ELSE orphans
        /\ UNCHANGED <<inflight, fetchSeq, overtaken>>
        /\ UNCHANGED <<engineVars, pureVars, cacheVars, getVars, now>>

\* a reconnect timeout of delay d fires: connect()
ReconnectFires(d, throws) ==
    LET c == connect(throws, [reconnects EXCEPT ![d] = @ - 1])
    IN  /\ reconnects[d] > 0
        /\ throws => MayFail
        /\ ConnectionBecomes(c)
        /\ hubEvent' = [HubEvent("reconnect", NoTopic, FALSE, {}) EXCEPT
                           !.connect = c.outcome]
        /\ UNCHANGED <<subscribers, inflight, fetchSeq, overtaken, orphans>>
        /\ UNCHANGED <<engineVars, pureVars, cacheVars, getVars, now>>

\* a timer of topic t fires: when the topic has a subscriber the tick starts
\* a fetch and is suspended at it
Tick(t) ==
    /\ timers[t] > 0
    /\ fetchSeq < MaxFetches
    /\ IF ShouldFetch(t)
       THEN /\ fetchSeq' = fetchSeq + 1
            /\ inflight' = inflight \cup {[id |-> fetchSeq + 1, topic |-> t]}
            /\ hubEvent' = HubEvent("tick", t, TRUE, {})
       ELSE /\ UNCHANGED <<fetchSeq, inflight>>
            /\ hubEvent' = HubEvent("tick", t, FALSE, {})
    /\ UNCHANGED <<subscribers, ws, timers, isConnecting, reconnectAttempts, reconnects,
                   overtaken, orphans>>
    /\ UNCHANGED <<engineVars, pureVars, cacheVars, getVars, now>>

\* the orders in which forEach may visit the callbacks of a Set: its
\* insertion order, which the model does not keep
Orders(S) ==
    { o \in [1..Cardinality(S) -> S] : \A i, j \in 1..Cardinality(S) : o[i] = o[j] => i = j }

\* a broadcast whose try block is around the whole forEach: the first
\* callback that throws ends it
broadcastMutant(order, throwers) ==
    LET firstThrow == IF \E i \in 1..Len(order) : order[i] \in throwers
                      THEN CHOOSE i \in 1..Len(order) :
                               /\ order[i] \in throwers
                               /\ \A j \in 1..(i - 1) : order[j] \notin throwers
                      ELSE Len(order)
    IN  [i \in 1..firstThrow |-> [cb |-> order[i], threw |-> order[i] \in throwers]]

\* broadcast(type, data): the callback invocations made, in order, each
\* inside its own try block; throwers are the callbacks that throw
broadcast(order, throwers) ==
    [i \in 1..Len(order) |-> [cb |-> order[i], threw |-> order[i] \in throwers]]

\* a fetch resolves with success true: broadcast to the topic's subscribers
\* of this moment
FetchSucceeds(f, order, throwers) ==
    /\ f \in inflight
    /\ order \in Orders(subscribers[f.topic])
    /\ throwers \subseteq subscribers[f.topic]
    /\ inflight' = inflight \ {f}
    /\ hubEvent' = LET calls == broadcast(order, throwers)
                   IN  [HubEvent("broadcast", f.topic, FALSE,
                                 { calls[i].cb : i \in 1..Len(calls) })
                        EXCEPT !.calls = calls]
    /\ overtaken' = IF subscribers[f.topic] # {}
                    THEN (overtaken \ {f.id}) \cup
                         { g.id : g \in { h \in inflight : h.topic = f.topic /\ h.id < f.id } }
                    ELSE overtaken \ {f.id}
    /\ orphans' = orphans \ {f.id}
    /\ UNCHANGED <<subscribers, ws, timers, isConnecting, reconnectAttempts, reconnects,
                   fetchSeq>>
    /\ UNCHANGED <<engineVars, pureVars, cacheVars, getVars, now>>

\* a tick whose catch block gives the connection up: it closes ws, which
\* clears the three timers
FetchFailsMutant(f) ==
    /\ f \in inflight
    /\ inflight' = inflight \ {f}
    /\ hubEvent' = HubEvent("failed", f.topic, FALSE, {})
    /\ orphans' = orphans \ {f.id}
    /\ overtaken' = overtaken \ {f.id}
    /\ timers' = [x \in Topics |-> 0]
    /\ ws' = "null"
    /\ UNCHANGED <<subscribers, isConnecting, reconnectAttempts, reconnects, fetchSeq>>
    /\ UNCHANGED <<engineVars, pureVars, cacheVars, getVars, now>>

\* a fetch rejects, its body does not parse, or it has success false: the
\* tick logs or does nothing
FetchFails(f) ==
    /\ f \in inflight
    /\ inflight' = inflight \ {f}
    /\ hubEvent' = HubEvent("failed", f.topic, FALSE, {})
    /\ orphans' = orphans \ {f.id}
    /\ overtaken' = overtaken \ {f.id}
    /\ UNCHANGED <<subscribers, ws, timers, isConnecting, reconnectAttempts, reconnects,
                   fetchSeq>>
    /\ UNCHANGED <<engineVars, pureVars, cacheVars, getVars, now>>

\* the hub in a browser, where simulateWebSocket() does not throw
NextHub ==
    \/ \E t \in Topics, cb \in Callbacks : Subscribe(t, cb, FALSE)
    \/ \E t \in Topics, cb \in Callbacks : Unsubscribe(t, cb)
    \/ \E t \in Topics : Tick(t)
    \/ \E f \in inflight :
           \E order \in Orders(subscribers[f.topic]),
              throwers \in SUBSET subscribers[f.topic] :
               FetchSucceeds(f, order, throwers)
    \/ \E f \in inflight : FetchFails(f)

\* the hub's connection in a runtime where simulateWebSocket() may throw;
\* the ticks of the timers, which write none of the connection's fields, are
\* left out
NextConnect ==
    \/ \E t \in Topics, cb \in Callbacks, throws \in BOOLEAN : Subscribe(t, cb, throws)
    \/ \E t \in Topics, cb \in Callbacks : Unsubscribe(t, cb)
    \/ \E d \in Delays, throws \in BOOLEAN : ReconnectFires(d, throws)

(***************************************************************************)
(* Specifications.                                                         *)
(***************************************************************************)
NextEngine == RunEnhanced \/ RunBasic

\* the engine is idle: no input, nothing run
IdleEngine ==
    /\ options = <<>>
    /\ currentPrice \in Prices
    /\ targetDTE = 7
    /\ recs = <<>>
    /\ recsBasic = <<>>
    /\ ran = {}

\* no call of getCurrentPrice is under way
IdlePrice ==
    /\ quotes = NoQuotes
    /\ priceOut = None

\* no call of calculateProbOfProfit is under way
IdleProb ==
    /\ probIn = None
    /\ probOut = None

\* no function is being applied
IdlePure == IdlePrice /\ IdleProb

\* no request of the handler is under way
IdleGet ==
    /\ route = "enhanced"
    /\ pc = [r \in Requests |-> "idle"]
    /\ reqPrice = [r \in Requests |-> FallbackPrice]
    /\ lastResp = None

InitEngineSpec == InitEngine /\ InitCache /\ IdleGet /\ InitHub /\ IdlePure /\ now = 0

SpecEngine == InitEngineSpec /\ [][NextEngine]_vars

InitCacheSpec == IdleEngine /\ InitCache /\ IdleGet /\ InitHub /\ IdlePure /\ now = 0

SpecCache == InitCacheSpec /\ [][NextCache]_vars

InitGetSpec == IdleEngine /\ InitCache /\ InitGet /\ InitHub /\ IdlePure /\ now = 0

SpecGet == InitGetSpec /\ [][NextGet]_vars

InitHubSpec == IdleEngine /\ InitCache /\ IdleGet /\ InitHub /\ IdlePure /\ now = 0

SpecHub == InitHubSpec /\ [][NextHub]_vars

InitConnectSpec == IdleEngine /\ InitCache /\ IdleGet /\ InitHub /\ IdlePure /\ now = 0

SpecConnect == InitConnectSpec /\ [][NextConnect]_vars

NextPrice == CallGetCurrentPrice \/ NextQuotes

InitPriceSpec ==
    IdleEngine /\ InitCache /\ IdleGet /\ InitHub /\ InitPrice /\ IdleProb /\ now = 0

SpecPrice == InitPriceSpec /\ [][NextPrice]_vars

NextProb == CallCalculateProb \/ NextProbInput

InitProbSpec ==
    IdleEngine /\ InitCache /\ IdleGet /\ InitHub /\ IdlePrice /\ InitProb /\ now = 0

SpecProb == InitProbSpec /\ [][NextProb]_vars

(***************************************************************************)
(* Claims about the recommendation engine (checked under SpecEngine).      *)
(***************************************************************************)
SeqToSet(s) == { s[i] : i \in 1..Len(s) }

MeetsPolicy(r) ==
    /\ r.creditReceived > 15
    /\ RatioGT(r.maxProfit, r.maxLoss, 25, 100)
    /\ r.daysToExpiration >= 5
    /\ r.daysToExpiration <= 10

\* C1: every recommendation returned by findCreditSpreads, in the enhanced
\* version and in the version of app/api/tsla-options/route.ts, has
\* creditReceived > 0.15, maxProfit / maxLoss > 0.25 and
\* 5 <= daysToExpiration <= 10.
C1_EveryVersionMeetsPolicy ==
    /\ \A r \in SeqToSet(recs) : MeetsPolicy(r)
    /\ \A r \in SeqToSet(recsBasic) : MeetsPolicy(r)

Consistent(r) ==
    /\ r.maxProfit = r.creditReceived
    /\ r.maxLoss = Abs(r.longStrike - r.shortStrike) - r.creditReceived
    /\ r.creditReceived = r.shortLeg.bid - r.longLeg.ask
    /\ r.maxLoss > 0 =>
           /\ r.riskRewardRatio.d # 0
           /\ r.riskRewardRatio.n * r.maxLoss = r.maxProfit * r.riskRewardRatio.d

\* C2: every recommendation produced by findCreditSpreads, call side and put
\* side, has maxProfit = creditReceived, maxLoss = |longStrike - shortStrike|
\* - creditReceived, creditReceived = short leg's bid - long leg's ask, and
\* riskRewardRatio = maxProfit / maxLoss whenever maxLoss > 0.
C2_RecommendationArithmetic ==
    \A r \in SeqToSet(recs) \cup SeqToSet(recsBasic) : Consistent(r)

\* a call-side and a put-side recommendation, both with a positive maxLoss,
\* in one result of the enhanced version
C2_Witness ==
    /\ \E r \in SeqToSet(recs) : r.type = "call" /\ r.maxLoss > 0
    /\ \E r \in SeqToSet(recs) : r.type = "put" /\ r.maxLoss > 0

\* an out-of-the-money call whose days to expiration are inside the window
OtmCallInWindow(o) ==
    /\ o.side = "call"
    /\ ~o.inTheMoney
    /\ getDaysToExpiration(o.expiration, now) >= targetDTE - 2
    /\ getDaysToExpiration(o.expiration, now) <= targetDTE + 2

\* x and y are such calls of the input, adjacent in strike, x the lower
AdjacentCalls(x, y) ==
    /\ OtmCallInWindow(x)
    /\ OtmCallInWindow(y)
    /\ x.strike < y.strike
    /\ \A z \in SeqToSet(options) :
           OtmCallInWindow(z) => ~(x.strike < z.strike /\ z.strike < y.strike)

\* C3: two out-of-the-money calls adjacent in strike, inside the window, with
\* credit > 0.15 and credit / (width - credit) > 0.25 always yield a bear-call
\* recommendation (fewer than 10 candidates exist at these bounds); calls
\* {260, bid 1.50, ask 1.60} and {265, bid 0.30, ask 0.40} give short 260,
\* long 265, credit 1.10, maxLoss 3.90, breakeven 261.10.
C3_AdjacentCallsYieldBearCall ==
    ("enhanced" \in ran /\ targetDTE = 7) =>
        \A x, y \in SeqToSet(options) :
            ( /\ AdjacentCalls(x, y)
              /\ x.bid - y.ask > 15
              /\ CallMaxLoss(x, y) > 0
              /\ RatioGT(x.bid - y.ask, CallMaxLoss(x, y), 25, 100) )
            => \E r \in SeqToSet(recs) :
                   /\ r.type = "call"
                   /\ r.shortStrike = x.strike
                   /\ r.longStrike = y.strike
                   /\ r.creditReceived = x.bid - y.ask
                   /\ r.maxLoss = (y.strike - x.strike) - (x.bid - y.ask)
                   /\ r.breakeven = x.strike + (x.bid - y.ask)

\* the output of the pairing stage of a version: the call pairs that pass,
\* then the put pairs that pass
Candidates(version) ==
    CallLoop(CallOptions(options, currentPrice, targetDTE, now), now, version,
             currentPrice)
    \o PutLoop(PutOptions(options, currentPrice, targetDTE, now), now, version,
               currentPrice)

\* equal ratios (of passing pairs: n > 0, d >= 0)
RatEq(a, b) ==
    IF a.d = 0 \/ b.d = 0 THEN a.d = b.d ELSE a.n * b.d = b.n * a.d

\* the elements of s whose ratio equals rho, in the order of s
OfRatio(s, rho) ==
    LET Same(r) == RatEq(r.riskRewardRatio, rho)
    IN  SelectSeq(s, Same)

\* out is the ranking of cand: at most 10, by non-increasing ratio, each
\* class of equal ratios a prefix of that class in cand, and a class cut
\* short only when out holds no lower ratio
Ranked(out, cand) ==
    /\ Len(out) = Min(10, Len(cand))
    /\ \A j \in 1..(Len(out) - 1) :
           ~RatGT(out[j + 1].riskRewardRatio, out[j].riskRewardRatio)
    /\ \A r \in SeqToSet(out) : r \in SeqToSet(cand)
    /\ \A c \in SeqToSet(cand) :
           LET class == OfRatio(cand, c.riskRewardRatio)
               got == OfRatio(out, c.riskRewardRatio)
           IN  /\ Len(got) <= Len(class)
               /\ got = SubSeq(class, 1, Len(got))
               /\ Len(got) < Len(class) =>
                      \A r \in SeqToSet(out) :
                          ~RatGT(c.riskRewardRatio, r.riskRewardRatio)

\* C16: the list findCreditSpreads returns has at most 10 elements, is in
\* non-increasing order of riskRewardRatio, holds the 10 highest-ratio
\* survivors when more than 10 survive, and keeps survivors of equal ratio
\* in the order in which the pairing stage produced them.
C16_TopTenStableByRatio ==
    /\ "enhanced" \in ran => Ranked(recs, Candidates("enhanced"))
    /\ "basic" \in ran => Ranked(recsBasic, Candidates("basic"))

\* more than 10 pairs survived, several of equal ratio; 10 were returned,
\* and a survivor was cut that ties with one returned
C16_Witness ==
    /\ "enhanced" \in ran
    /\ Len(Candidates("enhanced")) > 10
    /\ Len(recs) = 10
    /\ \E j \in 1..9 : RatEq(recs[j].riskRewardRatio, recs[j + 1].riskRewardRatio)
    /\ \E c \in SeqToSet(Candidates("enhanced")) :
           /\ c \notin SeqToSet(recs)
           /\ RatEq(c.riskRewardRatio, recs[10].riskRewardRatio)

\* every recommendation returned by either version
AllRecs == SeqToSet(recs) \cup SeqToSet(recsBasic)

\* the input as the GET handler builds it: [...calls, ...puts]
CallsThenPuts(s) ==
    \A i, j \in 1..Len(s) : i < j => ~(s[i].side = "put" /\ s[j].side = "call")

\* C22: when a mixed collection of calls and puts is passed to
\* findCreditSpreads, as the GET handler does, both legs of every
\* recommendation of type 'call' are call contracts and both legs of every
\* recommendation of type 'put' are put contracts.
C22_LegsOfOneSide ==
    CallsThenPuts(options) =>
        \A r \in AllRecs : r.shortLeg.side = r.type /\ r.longLeg.side = r.type

\* the same contracts in the opposite order
Reverse(s) == [i \in 1..Len(s) |-> s[Len(s) + 1 - i]]

\* C23: contracts are paired in strike order, not in input order, so a
\* permutation of the input (here its reversal, on inputs too short for the
\* cut at 10 to matter) yields the same set of recommendations; in
\* particular puts supplied in ascending strike order yield the bull put
\* spreads that the same puts yield in descending order.
C23_PairingIgnoresInputOrder ==
    Len(options) <= 10 =>
        /\ "enhanced" \in ran =>
               SeqToSet(findCreditSpreads(Reverse(options), currentPrice,
                                          targetDTE, now)) = SeqToSet(recs)
        /\ "basic" \in ran =>
               SeqToSet(findCreditSpreadsBasic(Reverse(options), currentPrice,
                                               targetDTE, now)) = SeqToSet(recsBasic)

\* C24: every returned recommendation has maxLoss > 0 and a finite positive
\* riskRewardRatio; a pair whose credit is at least its width is never
\* returned.
C24_MaxLossPositive ==
    \A r \in AllRecs :
        /\ r.maxLoss > 0
        /\ r.riskRewardRatio.d # 0
        /\ r.riskRewardRatio.n * r.riskRewardRatio.d > 0

\* C25: the two legs of every recommendation have the same expiration and
\* different strikes, ordered by type; the recommendation's expiration and
\* daysToExpiration are those of both legs.
C25_LegsOfOneExpiration ==
    \A r \in AllRecs :
        /\ r.shortLeg.expiration = r.longLeg.expiration
        /\ r.type = "call" => r.longStrike > r.shortStrike
        /\ r.type = "put" => r.longStrike < r.shortStrike
        /\ \A leg \in {r.shortLeg, r.longLeg} :
               /\ r.expiration = DateOf(leg.expiration * 1000)
               /\ r.daysToExpiration = getDaysToExpiration(leg.expiration, now)

(***************************************************************************)
(* Claims about SimpleCache (checked under SpecCache).                     *)
(***************************************************************************)
\* the last call on the cache was get(k), and k was set before it
GetAfterSet == lastGet # None /\ written[lastGet.key] # None

\* milliseconds from the last set of the key read to the read
AgeAtGet == lastGet.at - written[lastGet.key].at

\* C5: set(k, v, ttl) followed by get(k) with no time elapsed returns v;
\* get(k) more than ttl after the set, with no set on k in between, returns
\* null (ttl a duration: ttl >= 0).
C5_RoundTrip ==
    GetAfterSet =>
        /\ AgeAtGet = 0 => lastGet.result = written[lastGet.key].data
        /\ AgeAtGet > written[lastGet.key].ttlSeconds * 1000 => lastGet.result = Null

\* both cases occur: a read at age 0 of a key set with ttl 0, and a read one
\* millisecond past a ttl of one second
C5_Witness ==
    /\ GetAfterSet
    /\ \/ AgeAtGet = 0 /\ written[lastGet.key].ttlSeconds = 0
                       /\ lastGet.result = written[lastGet.key].data
       \/ AgeAtGet = 1001 /\ written[lastGet.key].ttlSeconds = 1
                          /\ lastGet.result = Null

\* C6: after any interleaving of set, get, cleanup and clock advances, get(k)
\* never returns a value older than its ttl, cleanup or not; it returns the
\* stored value exactly when the key was set and now - createdAt <= ttl.
C6_NoStaleRead ==
    lastGet # None =>
        LET w == written[lastGet.key]
            fresh == w # None /\ lastGet.at - w.at <= w.ttlSeconds * 1000
        IN  /\ lastGet.result # Null => fresh
            /\ fresh => lastGet.result = w.data

\* a read of an expired entry that cleanup had not removed returned null
C6_Witness ==
    /\ lastGet # None
    /\ lastGet.key \in DOMAIN lastGet.before
    /\ lastGet.at - lastGet.before[lastGet.key].timestamp
           > lastGet.before[lastGet.key].ttl
    /\ lastGet.result = Null

\* the step is a call set(k, v2, t2)
SetOn(k) ==
    /\ replaced' # None
    /\ replaced'.key = k
    /\ written'[k] # written[k] \/ replaced' # replaced

\* the entry set(k, v2, t2) must leave under k
NewEntry(k) ==
    [data |-> written'[k].data, timestamp |-> now,
     ttl |-> written'[k].ttlSeconds * 1000]

\* C18: set(k, v2, t2) replaces any existing entry for k entirely, whatever
\* its value, age and ttl, and leaves the entries under other keys as they
\* were; afterwards get(k) returns v2 for exactly as long as
\* now - (time of that set) <= t2, and null after.
C18_SetOverwrites ==
    [][/\ \A k \in CacheKeys :
              SetOn(k) =>
                  /\ k \in DOMAIN cache'
                  /\ cache'[k] = NewEntry(k)
                  /\ DOMAIN cache' \ {k} = DOMAIN cache \ {k}
                  /\ \A j \in DOMAIN cache \ {k} : cache'[j] = cache[j]
       /\ (lastGet' # None /\ written'[lastGet'.key] # None) =>
              LET w == written'[lastGet'.key]
              IN  IF lastGet'.at - w.at <= w.ttlSeconds * 1000
                  THEN lastGet'.result = w.data
                  ELSE lastGet'.result = Null]_vars

\* a set with ttl 0 replaced a live entry that had longer to live, and a
\* get of the key 999 ms later returned null
C18_Witness ==
    /\ lastGet # None
    /\ replaced # None
    /\ replaced.key = lastGet.key
    /\ replaced.kind = "longer"
    /\ written[lastGet.key].ttlSeconds = 0
    /\ lastGet.at - written[lastGet.key].at = 999
    /\ lastGet.result = Null

\* C21: cleanup() called twice in succession, with no other call and no
\* clock advance between the two calls, leaves the cache after the second
\* call identical to the cache after the first.
C21_CleanupIdempotent ==
    [][(swept # None /\ swept' # None) => cache' = cache]_vars

\* two cleanup calls were made in succession, the first of which deleted an
\* entry and kept another
C21_Witness ==
    /\ swept # None
    /\ swept.calls = 2
    /\ swept.removed
    /\ cache # EmptyMap

\* the step is a call cleanup()
CleanupStep == swept' # None /\ (swept' # swept \/ cache' # cache)

\* the step is a call get(k)
GetStep(k) ==
    /\ lastGet' # None
    /\ lastGet'.key = k
    /\ lastGet' # lastGet \/ cache' # cache

\* now - createdAt > ttl for the entry under k
TtlElapsed(k) == now - cache[k].timestamp > cache[k].ttl

\* the entries under the keys of K are as they were
Untouched(K) == \A j \in K : j \in DOMAIN cache' /\ cache'[j] = cache[j]

\* C26: cleanup() removes every entry with now - createdAt > ttl and no
\* other; get(k) on an expired entry removes exactly the entry for k; get on
\* a missing key or on an unexpired entry changes nothing; no get or cleanup
\* removes or alters an unexpired entry.
C26_DeletionsTouchExpiredOnly ==
    [][/\ CleanupStep =>
              /\ DOMAIN cache' = { k \in DOMAIN cache : ~TtlElapsed(k) }
              /\ Untouched(DOMAIN cache')
       /\ \A k \in CacheKeys :
              GetStep(k) =>
                  IF k \in DOMAIN cache /\ TtlElapsed(k)
                  THEN /\ DOMAIN cache' = DOMAIN cache \ {k}
                       /\ Untouched(DOMAIN cache \ {k})
                  ELSE cache' = cache
       /\ (CleanupStep \/ \E k \in CacheKeys : GetStep(k)) =>
              Untouched({ k \in DOMAIN cache : ~TtlElapsed(k) })]_vars

\* get(k) has just deleted the expired entry under k and left another
\* expired entry in the cache
C26_Witness ==
    /\ lastGet # None
    /\ lastGet.key \in DOMAIN lastGet.before
    /\ lastGet.key \notin DOMAIN cache
    /\ \E j \in DOMAIN cache : now - cache[j].timestamp > cache[j].ttl

(***************************************************************************)
(* Claims about the options GET handler (checked under SpecGet).           *)
(***************************************************************************)
\* the chain lookup threw, returned malformed JSON, or returned a body
\* without an option chain
ChainAbsent == {"throw", "malformed", "noOptionChain", "noResult", "emptyResult"}

\* C4: with no fresh cache entry, a chain lookup that throws, returns
\* malformed JSON or returns a structurally empty chain is answered with
\* success true and the static fallback payload, whose recommendations are
\* not empty; no failure of the price or chain fetch becomes an error
\* response.
C4_FallbackOnChainFailure ==
    lastResp # None =>
        /\ lastResp.response.success
        /\ lastResp.response.status = 200
        /\ lastResp.chain \in ChainAbsent =>
               /\ lastResp.response.data = FallbackPayload(lastResp.at)
               /\ Len(lastResp.response.data.recommendations) > 0

\* a request that missed the cache and whose chain lookup returned malformed
\* JSON has been answered
C4_Witness ==
    /\ lastResp # None
    /\ lastResp.chain = "malformed"
    /\ lastResp.response.success

\* the step answers a request whose chain lookup failed
AnswersChainFailure ==
    /\ lastResp' # lastResp
    /\ lastResp'.chain \in ChainFailures

\* C17: when a refresh's chain lookup fails after an earlier refresh had
\* succeeded, the handler serves the last successfully computed payload,
\* with its original lastUpdate; the static fallback set is served only
\* when no refresh has ever succeeded.
C17_LastGoodPayloadOnFailure ==
    [][AnswersChainFailure =>
          IF written[OptionsKey] # None
          THEN lastResp'.response.data = written[OptionsKey].data
          ELSE lastResp'.response.data = FallbackPayload(now)]_vars

\* the step is a GET that goes to the upstream providers
Recomputes(r) == pc[r] = "idle" /\ pc'[r] = "price"

\* the step is a GET answered without any fetch
AnsweredAtOnce == pc' = pc /\ lastResp' # lastResp

\* a payload was computed, and not more than 30 seconds ago
WithinWindow ==
    /\ written[OptionsKey] # None
    /\ now - written[OptionsKey].at <= 30000

\* C19: a GET arriving no more than 30 seconds after the last successful
\* computation makes no upstream price or chain fetch and returns exactly
\* the stored payload, flagged cached; a GET arriving more than 30 seconds
\* after it recomputes from upstream.
C19_ThirtySecondWindow ==
    [][/\ WithinWindow => \A r \in Requests : ~Recomputes(r)
       /\ AnsweredAtOnce =>
              /\ WithinWindow
              /\ lastResp'.response = CachedResponse(written[OptionsKey].data)
              /\ lastResp'.response.cached
              /\ lastResp'.response.data.lastUpdate = written[OptionsKey].at]_vars

\* a GET exactly 30 seconds after the computation was answered from the cache
C19_Witness ==
    /\ lastResp # None
    /\ lastResp.response.cached
    /\ written[OptionsKey] # None
    /\ lastResp.at - written[OptionsKey].at = 30000
    /\ lastResp.response.data = written[OptionsKey].data
    /\ \A r \in Requests : pc[r] = "idle"

\* the payload is the static fallback payload
IsFallback(data) == data = FallbackPayload(data.lastUpdate)

\* the step is a GET: one answered at once, or one that goes upstream
HandlerGetStep == AnsweredAtOnce \/ \E r \in Requests : Recomputes(r)

\* the cache holds no fresh entry under the options key
NoFreshEntry ==
    \/ OptionsKey \notin DOMAIN cache
    \/ now - cache[OptionsKey].timestamp > cache[OptionsKey].ttl

\* C29: the static fallback payload is never written to the cache: an entry
\* under 'tsla-options-data' is the payload of a refresh whose chain lookup
\* succeeded, a response flagged cached never carries the fallback
\* recommendations, and a GET that follows a failed refresh, with no fresh
\* entry, goes to the upstream providers again.
C29_FallbackNeverCached ==
    [][/\ OptionsKey \in DOMAIN cache' =>
              /\ ~IsFallback(cache'[OptionsKey].data)
              /\ written'[OptionsKey] # None
              /\ cache'[OptionsKey].data = written'[OptionsKey].data
              /\ \E body \in ChainBodies, price \in {FallbackPrice, QuotedPrice} :
                     cache'[OptionsKey].data =
                         ResponseData(body, price, cache'[OptionsKey].timestamp)
       /\ (lastResp' # None /\ lastResp'.response.cached) =>
              /\ ~IsFallback(lastResp'.response.data)
              /\ lastResp'.response.data.recommendations
                     # MockRecommendations(lastResp'.response.data.lastUpdate)
       /\ (/\ lastResp # None
           /\ IsFallback(lastResp.response.data)
           /\ NoFreshEntry
           /\ HandlerGetStep) => \E r \in Requests : Recomputes(r)]_vars

\* a refresh failed and was answered with the fallback, the cache holds no
\* entry, and the next GET is suspended at its price lookup
C29_Witness ==
    /\ lastResp # None
    /\ lastResp.chain \in ChainFailures
    /\ IsFallback(lastResp.response.data)
    /\ OptionsKey \notin DOMAIN cache
    /\ pc[lastResp.req] = "price"

\* the requests suspended at their chain lookup
AtChainLookup == { r \in Requests : pc[r] = "chain" }

\* C30: when two GET requests overlap on a cache miss, the upstream chain
\* is not fetched twice for the same miss (so that no payload built from
\* earlier-fetched data can overwrite one built from later-fetched data):
\* at most one request is suspended at the chain lookup at any time.
C30_OneChainFetchPerMiss == Cardinality(AtChainLookup) <= 1

(***************************************************************************)
(* Claims about the polling hub (checked under SpecHub).                   *)
(***************************************************************************)
\* the fetches of topic t that a step starts
StartedFor(t) == { f \in inflight' \ inflight : f.topic = t }

\* C7: subscribing a callback to a topic without subscribers starts exactly
\* one refresh timer for that topic and exactly one immediate refresh
\* attempt for it; subscribing further callbacks to the already active topic
\* starts no additional timer.
C7_SubscribeIdleStartsTimerAndRefresh ==
    [][\A t \in Topics :
          /\ (subscribers[t] = {} /\ subscribers'[t] # {}) =>
                 /\ timers'[t] = timers[t] + 1
                 /\ Cardinality(StartedFor(t)) = 1
          /\ (subscribers[t] # {} /\ subscribers'[t] # subscribers[t]
                  /\ subscribers[t] \subseteq subscribers'[t]) =>
                 timers'[t] = timers[t]]_vars

\* C8: after the last subscriber of a topic unsubscribes no fetch is started
\* for that topic until a callback subscribes to it again, whatever the
\* other topics' subscribers: a fetch of a topic is started only while the
\* topic has a subscriber.
C8_FetchOnlyWhileSubscribed ==
    [][\A f \in inflight' \ inflight :
          subscribers[f.topic] # {} /\ subscribers'[f.topic] # {}]_vars

\* the timer of a topic without subscribers has fired, kept alive by another
\* topic's subscriber, and the tick started no fetch
C8_Witness ==
    /\ hubEvent.kind = "tick"
    /\ ~hubEvent.started
    /\ subscribers[hubEvent.topic] = {}
    /\ timers[hubEvent.topic] > 0
    /\ \E t \in Topics : subscribers[t] # {}
    /\ fetchSeq > 0

\* C9: in every state reachable by subscribe and unsubscribe calls, a
\* topic's refresh timer exists if and only if that topic's own subscriber
\* set is not empty, independently of the other topics.
C9_TimerIffOwnSubscribers ==
    \A t \in Topics : (timers[t] > 0) <=> (subscribers[t] # {})

\* C10: refreshes are serialized per topic: never are two fetches of the same
\* topic outstanding together.
C10_OneFetchPerTopic ==
    \A t \in Topics : Cardinality({ f \in inflight : f.topic = t }) <= 1

\* the fetches that a step completes
Completed == inflight \ inflight'

\* the step hands a result to at least one callback
Delivers == hubEvent'.kind = "broadcast" /\ hubEvent'.to # {}

\* C11: for each topic, results reach the subscribers in the order their
\* fetches were started: the result of a fetch is never delivered after the
\* result of a fetch of the same topic that was started later.
C11_DeliveryInStartOrder ==
    [][\A f \in Completed : Delivers => f.id \notin overtaken]_vars

\* C12: the result of a fetch that was in flight when its topic's last
\* subscriber unsubscribed is dropped: no callback is invoked with it, not
\* even one that subscribed to the topic before the fetch completed.
C12_OrphanedResultDropped ==
    [][\A f \in Completed : f.id \in orphans => ~Delivers]_vars

\* the step is the end of a tick whose fetch failed
TickFails == Completed # {} /\ hubEvent'.kind = "failed"

\* the step is a tick of the topic whose fetch failed last
TickAfterFailure ==
    /\ hubEvent.kind = "failed"
    /\ hubEvent'.kind = "tick"
    /\ hubEvent'.topic = hubEvent.topic

\* C13: a failed tick (the fetch rejects, the response does not parse, or it
\* has success false) leaves every subscriber set and every timer as it was
\* and invokes no callback; the topic's timer stays alive while the topic has
\* a subscriber, and its next tick starts a fetch again.
C13_FailedTickLeavesHub ==
    [][/\ TickFails =>
           /\ subscribers' = subscribers
           /\ timers' = timers
           /\ ws' = ws
           /\ hubEvent'.to = {}
           /\ \A t \in Topics : subscribers'[t] # {} => timers'[t] > 0
       /\ (TickAfterFailure /\ subscribers[hubEvent.topic] # {}) =>
              hubEvent'.started]_vars

\* a fetch of a topic with a subscriber has failed, and the topic's timer is
\* alive for the next tick
C13_Witness ==
    /\ hubEvent.kind = "failed"
    /\ subscribers[hubEvent.topic] # {}
    /\ timers[hubEvent.topic] = 1
    /\ ws = "open"

(***************************************************************************)
(* Claims about getCurrentPrice (checked under SpecPrice).                 *)
(***************************************************************************)
\* a well-formed positive numeric price
WellFormedPrice(j) == j.t = "number" /\ j.v > 0

\* the price a provider yields, as a number: Alpha Vantage sends it as text
YahooPrice == YahooField(quotes.yahoo)

AvPrice ==
    IF AvField(quotes.av).t = "string" THEN parseFloat(AvField(quotes.av).s)
    ELSE AvField(quotes.av)

FmpPrice == FmpField(quotes.fmp)

\* the first provider, in the order Yahoo, Alpha Vantage, FMP, that is tried,
\* answers and yields a well-formed positive price; 250 when there is none
FirstWellFormed ==
    IF Answers(quotes.yahoo) /\ WellFormedPrice(YahooPrice) THEN YahooPrice
    ELSE IF Answers(quotes.av) /\ WellFormedPrice(AvPrice) THEN AvPrice
    ELSE IF Answers(quotes.fmp) /\ WellFormedPrice(FmpPrice) THEN FmpPrice
    ELSE Num(25000)

\* C14: getCurrentPrice returns the price of the first provider, in the
\* order Yahoo, Alpha Vantage, FMP, that yields a well-formed positive
\* numeric price, skipping a provider that throws or yields a missing, zero,
\* negative or non-numeric price, and 250 when none does; the returned value
\* is always a positive finite number.
C14_FirstWellFormedPriceWins ==
    priceOut # None =>
        /\ WellFormedPrice(priceOut)
        /\ priceOut = FirstWellFormed

(***************************************************************************)
(* Claims about calculateProbOfProfit (checked under SpecProb).            *)
(***************************************************************************)
\* C15: calculateProbOfProfit returns a number in the closed range [20, 85]
\* for every finite input, degenerate ones included (breakeven equal to the
\* current price, implied volatility 0 or missing on a leg, 0 days to
\* expiration, a non-positive breakeven): never NaN, never out of range.
C15_ProbabilityInRange ==
    probOut # None =>
        /\ probOut.t = "number"
        /\ probOut.v >= 20
        /\ probOut.v <= 85

(***************************************************************************)
(* Claims about getConnectionStatus (checked under SpecHub).               *)
(***************************************************************************)
\* C20: getConnectionStatus is 'disconnected' whenever no topic has a
\* subscriber, is 'connected' only while some topic has a subscriber, and is
\* not 'connected' after the most recent fetch attempt failed (the hub's
\* last event is then that failure).
C20_StatusFollowsFetchOutcome ==
    /\ TotalSubscribers(subscribers) = 0 => getConnectionStatus = "disconnected"
    /\ getConnectionStatus = "connected" => TotalSubscribers(subscribers) > 0
    /\ hubEvent.kind = "failed" => getConnectionStatus # "connected"

(***************************************************************************)
(* Claims about broadcast (checked under SpecHub).                         *)
(***************************************************************************)
\* the number of invocations of cb in a list of calls
Invocations(calls, cb) == Cardinality({ i \in 1..Len(calls) : calls[i].cb = cb })

\* C27: on every successful tick of a topic each callback in the topic's
\* subscriber set is invoked exactly once and no other callback is invoked,
\* whether or not a callback throws; the tick removes no subscriber and
\* stops no timer.
C27_BroadcastToEachSubscriber ==
    [][(Completed # {} /\ hubEvent'.kind = "broadcast") =>
           /\ \A cb \in Callbacks :
                  Invocations(hubEvent'.calls, cb) =
                      IF cb \in subscribers[hubEvent'.topic] THEN 1 ELSE 0
           /\ subscribers' = subscribers
           /\ timers' = timers
           /\ ws' = ws]_vars

\* a broadcast to two subscribers, the first of which threw, while another
\* topic has a subscriber too
C27_Witness ==
    /\ hubEvent.kind = "broadcast"
    /\ Len(hubEvent.calls) = 2
    /\ hubEvent.calls[1].threw
    /\ ~hubEvent.calls[2].threw
    /\ \E t \in Topics \ {hubEvent.topic} : subscribers[t] # {}

(***************************************************************************)
(* Claims about the connection (checked under SpecConnect).                *)
(***************************************************************************)
\* the timeouts pending after one of those of before has fired, if the step
\* is the firing of one, and before otherwise
AfterFiring(before) ==
    IF hubEvent'.kind = "reconnect"
    THEN { [before EXCEPT ![d] = @ - 1] : d \in { x \in DOMAIN before : before[x] > 0 } }
    ELSE {before}

\* C28: the k-th consecutive failed connection attempt schedules one
\* reconnect after 1000 * 2^(k-1) ms, up to 5 reconnect attempts; a failure
\* after the 5th schedules nothing and the status is 'error'; a successful
\* connect and a disconnect reset the counter to 0; no reconnect fires while
\* the hub has no subscribers.
C28_CappedBackoff ==
    [][/\ hubEvent'.connect = "failed" =>
              IF reconnectAttempts < 5
              THEN /\ reconnectAttempts' = reconnectAttempts + 1
                   /\ \E p \in AfterFiring(reconnects) :
                          reconnects' =
                              [p EXCEPT ![1000 * Pow2(reconnectAttempts' - 1)] = @ + 1]
              ELSE /\ reconnects' \in AfterFiring(reconnects)
                   /\ reconnectAttempts' = 5
                   /\ getConnectionStatus' = "error"
       /\ reconnectAttempts' <= 5
       /\ hubEvent'.connect = "opened" => reconnectAttempts' = 0
       /\ (hubEvent'.kind = "unsubscribe" /\ TotalSubscribers(subscribers') = 0) =>
              reconnectAttempts' = 0
       /\ hubEvent'.kind = "reconnect" => TotalSubscribers(subscribers) > 0]_vars

====
